---- MODULE Spec2Model ----
(***************************************************************************)
(* Model of server.js: the booking-request API of cleaning-services.       *)
(* The state is the content of data/requests.json, the wall clock, and     *)
(* the response of the most recent call.  Every route handler is one       *)
(* action: the handlers are synchronous (readFileSync / writeFileSync) and *)
(* run to completion on Node's single-threaded event loop.                 *)
(***************************************************************************)
EXTENDS Integers, Sequences, FiniteSets, TLC

VARIABLES REQUESTS_FILE, now, last, created, hist, inflight, corruptRead

vars == <<REQUESTS_FILE, now, last, created, hist, inflight, corruptRead>>

(* ------------------------------ bounds --------------------------------- *)

\* most records the store is allowed to grow to
MaxRecords == 2

\* last value of the millisecond clock
MaxClock == 1

\* most creation calls in flight (received, not yet answered) at once
MaxInflight == 2

(* --------------------------- JavaScript values -------------------------- *)

\* numbers, null, NaN, undefined and a non-numeric string, as tagged values
Num(n) == [t |-> "number", n |-> n]
Null == [t |-> "null", n |-> 0]
NaN == [t |-> "NaN", n |-> 0]
Undefined == [t |-> "undefined", n |-> 0]
NonNumeric == [t |-> "string", n |-> 0]

\* JavaScript truthiness of a bedrooms/bathrooms value
Truthy(v) == \/ v.t = "string"
             \/ v.t = "number" /\ v.n # 0

\* v || 0
OrZero(v) == IF Truthy(v) THEN v ELSE Num(0)

\* Number(v)
Number(v) ==
    CASE v.t = "number" -> v
      [] v.t = "null" -> Num(0)
      [] OTHER -> NaN

\* a * k and a + b on JavaScript numbers (NaN is absorbing)
Times(a, k) == IF a.t = "number" THEN Num(a.n * k) ELSE NaN
Plus(a, b) == IF a.t = "number" /\ b.t = "number" THEN Num(a.n + b.n) ELSE NaN

\* JSON.stringify followed by JSON.parse of one value: NaN is written as null
JSONValue(v) == IF v.t = "NaN" THEN Null ELSE v

(* ------------------------------ strings --------------------------------- *)

\* date and time strings are sequences of characters
Digits == {"0", "1", "2", "3", "4", "5", "6", "7", "8", "9"}

D1 == <<"2", "0", "2", "5", "-", "0", "6", "-", "0", "1">>
D2 == <<"2", "0", "2", "4", "-", "1", "3", "-", "9", "9">>
BadDate == <<"2", "0", "2", "5", "-", "6", "-", "1">>
T1 == <<"1", "0", ":", "0", "0">>
BadTime == <<"9", ":", "0", "0">>
Empty == <<>>

\* /^\d{4}-\d{2}-\d{2}$/.test(dateStr)
isValidDateYYYYMMDD(dateStr) ==
    /\ Len(dateStr) = 10
    /\ \A i \in {1, 2, 3, 4, 6, 7, 9, 10} : dateStr[i] \in Digits
    /\ dateStr[5] = "-"
    /\ dateStr[8] = "-"

\* /^\d{2}:\d{2}$/.test(timeStr)
isValidTimeHHMM(timeStr) ==
    /\ Len(timeStr) = 5
    /\ \A i \in {1, 2, 4, 5} : timeStr[i] \in Digits
    /\ timeStr[3] = ":"

\* makeDateTimeKey joining date and time with a "T"
makeDateTimeKey_T(date, time) == date \o <<"T">> \o time

\* `${date} ${time}`
makeDateTimeKey(date, time) == date \o <<" ">> \o time

(* --------------------------- the JSON "DB" ------------------------------ *)

\* content of data/requests.json: no file, blank text, text that does not
\* parse, JSON that is not an array, or a JSON array of records
FileOf(kind, rows) == [kind |-> kind, rows |-> rows]
ArrayFile(rows) == FileOf("array", rows)
FileKinds == {"missing", "blank", "corrupt", "nonarray", "array"}

\* ensureDataFile(): a missing file is created holding "[]"
ensureDataFile(file) == IF file.kind = "missing" THEN ArrayFile(<<>>) ELSE file

\* readRequestsSafe with the repair in a finally block: it runs after every read
readRequestsSafe_Finally(file) ==
    LET f == ensureDataFile(file)
    IN CASE f.kind = "array" -> [rows |-> f.rows, file |-> ArrayFile(<<>>)]
         [] OTHER -> [rows |-> <<>>, file |-> ArrayFile(<<>>)]

\* readRequestsSafe salvaging the records legible in a text that does not parse
readRequestsSafe_Salvage(file) ==
    LET f == ensureDataFile(file)
    IN CASE f.kind = "array" -> [rows |-> f.rows, file |-> f]
         [] f.kind = "corrupt" -> [rows |-> f.rows, file |-> ArrayFile(f.rows)]
         [] OTHER -> [rows |-> <<>>, file |-> f]

\* readRequestsSafe(): the rows returned and the file it leaves behind
readRequestsSafe(file) ==
    LET f == ensureDataFile(file)
    IN CASE f.kind = "array" -> [rows |-> f.rows, file |-> f]
         [] f.kind = "corrupt" -> [rows |-> <<>>, file |-> ArrayFile(<<>>)]
         [] OTHER -> [rows |-> <<>>, file |-> f]

\* JSON.stringify(rows) as JSON.parse gives it back
JSONRecord(r) ==
    [r EXCEPT !.bedrooms = JSONValue(@),
              !.bathrooms = JSONValue(@),
              !.estimateUSD = JSONValue(@)]
JSONRows(rows) == [i \in 1..Len(rows) |-> JSONRecord(rows[i])]

\* writeRequests(rows): the file after the write
writeRequests(file, rows) == ArrayFile(JSONRows(rows))

\* the record sequence the store yields (what loadAll returns)
Rows(file) == readRequestsSafe(file).rows

(* ------------------------------ helpers --------------------------------- *)

\* conflict without the exemption of cancelled records
conflict_NoCancelExemption(requests, dateTime) ==
    \E i \in 1..Len(requests) : requests[i].dateTime = dateTime

\* conflict comparing the key with r.date instead of r.dateTime
conflict_DateField(requests, dateTime) ==
    \E i \in 1..Len(requests) :
        requests[i].date = dateTime /\ requests[i].status # "cancelled"

\* requests.some(r => r.dateTime === dateTime && r.status !== "cancelled")
conflict(requests, dateTime) ==
    \E i \in 1..Len(requests) :
        requests[i].dateTime = dateTime /\ requests[i].status # "cancelled"

\* requests.findIndex(r => r.id === id); 0 stands for -1
findIndex(requests, id) ==
    IF \E i \in 1..Len(requests) : requests[i].id = id
    THEN CHOOSE i \in 1..Len(requests) :
             /\ requests[i].id = id
             /\ \A j \in 1..(i - 1) : requests[j].id # id
    ELSE 0

allowed == {"pending", "confirmed", "completed", "cancelled"}

\* a response: status code, error text, and the fields of the JSON body
Response(op, code, error, available, dateTime, request, requests) ==
    [op |-> op, code |-> code, error |-> error, available |-> available,
     dateTime |-> dateTime, request |-> request, requests |-> requests]
ErrorResponse(op, code, error) ==
    Response(op, code, error, FALSE, Empty, <<>>, <<>>)

(* ------------------------------ inputs ---------------------------------- *)

\* Math.random().toString(16).slice(2): the random part of an id
Rands == {"a3f"}

\* an id: the random part followed by Date.now() in hex
MakeId(rand, t) == <<rand, t>>
Ids == {MakeId(r, t) : r \in Rands, t \in 0..MaxClock}
UnknownId == MakeId("none", 0)

\* a request body with every required field present; "" is an absent or
\* empty string field
BasePayload ==
    [fullName |-> "Ann", email |-> "ann@example.com", phone |-> "555-0100",
     serviceType |-> "standard", propertyType |-> "residential",
     address |-> "1 Main St", bedrooms |-> Num(3), bathrooms |-> Num(2),
     frequency |-> "", date |-> D1, time |-> T1, notes |-> ""]

ValidPayloads == {[BasePayload EXCEPT !.date = d] : d \in {D1, D2}}

InvalidPayloads ==
    {[BasePayload EXCEPT !.fullName = ""], [BasePayload EXCEPT !.email = ""],
     [BasePayload EXCEPT !.phone = ""], [BasePayload EXCEPT !.serviceType = ""],
     [BasePayload EXCEPT !.propertyType = ""], [BasePayload EXCEPT !.address = ""],
     [BasePayload EXCEPT !.date = Empty], [BasePayload EXCEPT !.time = Empty],
     [BasePayload EXCEPT !.date = BadDate], [BasePayload EXCEPT !.time = BadTime]}

Payloads == ValidPayloads \cup InvalidPayloads

\* request bodies that differ in what the estimate is computed from
EstimatePayloads ==
    {[BasePayload EXCEPT !.serviceType = s, !.propertyType = q,
                         !.bedrooms = b, !.bathrooms = c] :
        s \in {"standard", "deep"}, q \in {"residential", "commercial"},
        b \in {Undefined, Num(-1), Num(0), Num(3), NonNumeric},
        c \in {Undefined, Num(-2), Num(0), Num(2)}}

CheckDates == {Empty, BadDate, D1, D2}
CheckTimes == {Empty, BadTime, T1}
PatchIds == Ids \cup {UnknownId}
PatchStatuses == allowed \cup {"bogus"}

(* ------------------------------ handlers -------------------------------- *)

\* the rows that are not cancelled
Active(requests) == SelectSeq(requests, LAMBDA r : r.status # "cancelled")

\* GetCheck writing the rows back with the cancelled records filtered out
GetCheck_Prune(date, time, file) ==
    IF date = Empty \/ time = Empty
          \/ ~isValidDateYYYYMMDD(date) \/ ~isValidTimeHHMM(time)
    THEN [file |-> file, res |-> ErrorResponse("check", 400, "Missing date or time.")]
    ELSE LET read == readRequestsSafe(file)
             dateTime == makeDateTimeKey(date, time)
         IN [file |-> writeRequests(read.file, Active(read.rows)),
             res |-> Response("check", 200, "", ~conflict(read.rows, dateTime),
                              dateTime, <<>>, <<>>)]

\* app.get("/api/check"): the response and the file the call leaves behind
GetCheck(date, time, file) ==
    IF date = Empty \/ time = Empty
    THEN [file |-> file, res |-> ErrorResponse("check", 400, "Missing date or time.")]
    ELSE IF ~isValidDateYYYYMMDD(date)
    THEN [file |-> file, res |-> ErrorResponse("check", 400, "Date must be YYYY-MM-DD.")]
    ELSE IF ~isValidTimeHHMM(time)
    THEN [file |-> file, res |-> ErrorResponse("check", 400, "Time must be HH:MM (24-hour).")]
    ELSE LET read == readRequestsSafe(file)
             dateTime == makeDateTimeKey(date, time)
         IN [file |-> read.file,
             res |-> Response("check", 200, "", ~conflict(read.rows, dateTime),
                              dateTime, <<>>, <<>>)]

\* Estimate with the two rates exchanged
Estimate_RatesSwapped(p) ==
    LET base == IF p.serviceType = "deep" THEN 180 ELSE 120
        bed == Times(Number(OrZero(p.bedrooms)), 15)
        bath == Times(Number(OrZero(p.bathrooms)), 20)
        commercial == IF p.propertyType = "commercial" THEN 60 ELSE 0
    IN Plus(Plus(Plus(Num(base), bed), bath), Num(commercial))

\* the estimate of a request body
Estimate(p) ==
    LET base == IF p.serviceType = "deep" THEN 180 ELSE 120
        bed == Times(Number(OrZero(p.bedrooms)), 20)
        bath == Times(Number(OrZero(p.bathrooms)), 15)
        commercial == IF p.propertyType = "commercial" THEN 60 ELSE 0
    IN Plus(Plus(Plus(Num(base), bed), bath), Num(commercial))

\* the record a creation builds
NewRequest(p, id, t, dateTime) ==
    [id |-> id, createdAt |-> t, status |-> "pending",
     fullName |-> p.fullName, email |-> p.email, phone |-> p.phone,
     serviceType |-> p.serviceType, propertyType |-> p.propertyType,
     address |-> p.address,
     bedrooms |-> IF Truthy(p.bedrooms) THEN Number(p.bedrooms) ELSE Null,
     bathrooms |-> IF Truthy(p.bathrooms) THEN Number(p.bathrooms) ELSE Null,
     frequency |-> IF p.frequency = "" THEN "one-time" ELSE p.frequency,
     date |-> p.date, time |-> p.time, dateTime |-> dateTime,
     notes |-> p.notes, estimateUSD |-> Estimate(p)]

\* MissingRequired without the test of phone
MissingRequired_NoPhone(p) ==
    \/ p.fullName = ""
    \/ p.email = ""
    \/ p.serviceType = ""
    \/ p.propertyType = ""
    \/ p.address = ""
    \/ p.date = Empty
    \/ p.time = Empty

\* the required-field test of a creation
MissingRequired(p) ==
    \/ p.fullName = ""
    \/ p.email = ""
    \/ p.phone = ""
    \/ p.serviceType = ""
    \/ p.propertyType = ""
    \/ p.address = ""
    \/ p.date = Empty
    \/ p.time = Empty

\* PostRequests writing the new record before it looks for a conflict
PostRequests_WriteBeforeCheck(p, rand, t, file) ==
    IF MissingRequired(p) \/ ~isValidDateYYYYMMDD(p.date) \/ ~isValidTimeHHMM(p.time)
    THEN [file |-> file, res |-> ErrorResponse("create", 400, "Missing required fields.")]
    ELSE LET read == readRequestsSafe(file)
             dateTime == makeDateTimeKey(p.date, p.time)
             newRequest == NewRequest(p, MakeId(rand, t), t, dateTime)
             written == writeRequests(read.file, <<newRequest>> \o read.rows)
         IN IF conflict(read.rows, dateTime)
            THEN [file |-> written,
                  res |-> ErrorResponse("create", 409, "That date/time is already booked.")]
            ELSE [file |-> written,
                  res |-> Response("create", 201, "", FALSE, Empty,
                                   <<JSONRecord(newRequest)>>, <<>>)]

\* PostRequests with requests.push in place of requests.unshift
PostRequests_Push(p, rand, t, file) ==
    IF MissingRequired(p) \/ ~isValidDateYYYYMMDD(p.date) \/ ~isValidTimeHHMM(p.time)
    THEN [file |-> file, res |-> ErrorResponse("create", 400, "Missing required fields.")]
    ELSE LET read == readRequestsSafe(file)
             dateTime == makeDateTimeKey(p.date, p.time)
             newRequest == NewRequest(p, MakeId(rand, t), t, dateTime)
         IN IF conflict(read.rows, dateTime)
            THEN [file |-> read.file,
                  res |-> ErrorResponse("create", 409, "That date/time is already booked.")]
            ELSE [file |-> writeRequests(read.file, Append(read.rows, newRequest)),
                  res |-> Response("create", 201, "", FALSE, Empty,
                                   <<JSONRecord(newRequest)>>, <<>>)]

\* PostRequests writing the new record alone, the rows read left out
PostRequests_Overwrite(p, rand, t, file) ==
    IF MissingRequired(p) \/ ~isValidDateYYYYMMDD(p.date) \/ ~isValidTimeHHMM(p.time)
    THEN [file |-> file, res |-> ErrorResponse("create", 400, "Missing required fields.")]
    ELSE LET read == readRequestsSafe(file)
             dateTime == makeDateTimeKey(p.date, p.time)
             newRequest == NewRequest(p, MakeId(rand, t), t, dateTime)
         IN IF conflict(read.rows, dateTime)
            THEN [file |-> read.file,
                  res |-> ErrorResponse("create", 409, "That date/time is already booked.")]
            ELSE [file |-> writeRequests(read.file, <<newRequest>>),
                  res |-> Response("create", 201, "", FALSE, Empty,
                                   <<JSONRecord(newRequest)>>, <<>>)]

\* PostRequests refusing a slot that holds any record, cancelled or not
PostRequests_NoExemption(p, rand, t, file) ==
    IF MissingRequired(p) \/ ~isValidDateYYYYMMDD(p.date) \/ ~isValidTimeHHMM(p.time)
    THEN [file |-> file, res |-> ErrorResponse("create", 400, "Missing required fields.")]
    ELSE LET read == readRequestsSafe(file)
             dateTime == makeDateTimeKey(p.date, p.time)
             newRequest == NewRequest(p, MakeId(rand, t), t, dateTime)
         IN IF conflict_NoCancelExemption(read.rows, dateTime)
            THEN [file |-> read.file,
                  res |-> ErrorResponse("create", 409, "That date/time is already booked.")]
            ELSE [file |-> writeRequests(read.file, <<newRequest>> \o read.rows),
                  res |-> Response("create", 201, "", FALSE, Empty,
                                   <<JSONRecord(newRequest)>>, <<>>)]

\* app.post("/api/requests"), with the random part of the id and the time
PostRequests(p, rand, t, file) ==
    IF MissingRequired(p)
    THEN [file |-> file, res |-> ErrorResponse("create", 400, "Missing required fields.")]
    ELSE IF ~isValidDateYYYYMMDD(p.date)
    THEN [file |-> file, res |-> ErrorResponse("create", 400, "Date must be YYYY-MM-DD.")]
    ELSE IF ~isValidTimeHHMM(p.time)
    THEN [file |-> file, res |-> ErrorResponse("create", 400, "Time must be HH:MM (24-hour).")]
    ELSE LET read == readRequestsSafe(file)
             dateTime == makeDateTimeKey(p.date, p.time)
             newRequest == NewRequest(p, MakeId(rand, t), t, dateTime)
         IN IF conflict(read.rows, dateTime)
            THEN [file |-> read.file,
                  res |-> ErrorResponse("create", 409, "That date/time is already booked.")]
            ELSE [file |-> writeRequests(read.file, <<newRequest>> \o read.rows),
                  res |-> Response("create", 201, "", FALSE, Empty,
                                   <<JSONRecord(newRequest)>>, <<>>)]

\* app.get("/api/admin/requests"), the admin key accepted
GetAdminRequests(file) ==
    LET read == readRequestsSafe(file)
    IN [file |-> read.file,
        res |-> Response("list", 200, "", FALSE, Empty, <<>>, read.rows)]

\* PatchAdminRequest moving the updated record to the front of the list
PatchAdminRequest_MoveToFront(id, status, file) ==
    IF status \notin allowed
    THEN [file |-> file, res |-> ErrorResponse("patch", 400, "Invalid status.")]
    ELSE LET read == readRequestsSafe(file)
             idx == findIndex(read.rows, id)
             updated == [read.rows[idx] EXCEPT !.status = status]
             others == SubSeq(read.rows, 1, idx - 1)
                           \o SubSeq(read.rows, idx + 1, Len(read.rows))
         IN IF idx = 0
            THEN [file |-> read.file, res |-> ErrorResponse("patch", 404, "Not found.")]
            ELSE [file |-> writeRequests(read.file, <<updated>> \o others),
                  res |-> Response("patch", 200, "", FALSE, Empty, <<updated>>, <<>>)]

\* PatchAdminRequest looking the record up before it tests the status
PatchAdminRequest_LookupFirst(id, status, file) ==
    LET read == readRequestsSafe(file)
        idx == findIndex(read.rows, id)
        requests == [read.rows EXCEPT ![idx].status = status]
    IN IF idx = 0
       THEN [file |-> read.file, res |-> ErrorResponse("patch", 404, "Not found.")]
       ELSE IF status \notin allowed
       THEN [file |-> read.file, res |-> ErrorResponse("patch", 400, "Invalid status.")]
       ELSE [file |-> writeRequests(read.file, requests),
             res |-> Response("patch", 200, "", FALSE, Empty,
                              <<requests[idx]>>, <<>>)]

\* PatchAdminRequest with "cancelled" and "completed" final
PatchAdminRequest_FinalStatuses(id, status, file) ==
    IF status \notin allowed
    THEN [file |-> file, res |-> ErrorResponse("patch", 400, "Invalid status.")]
    ELSE LET read == readRequestsSafe(file)
             idx == findIndex(read.rows, id)
             requests == [read.rows EXCEPT ![idx].status = status]
         IN IF idx = 0
            THEN [file |-> read.file, res |-> ErrorResponse("patch", 404, "Not found.")]
            ELSE IF read.rows[idx].status \in {"cancelled", "completed"}
            THEN [file |-> read.file, res |-> ErrorResponse("patch", 400, "Invalid status.")]
            ELSE [file |-> writeRequests(read.file, requests),
                  res |-> Response("patch", 200, "", FALSE, Empty,
                                   <<requests[idx]>>, <<>>)]

\* app.patch("/api/admin/requests/:id"), the admin key accepted
PatchAdminRequest(id, status, file) ==
    IF status \notin allowed
    THEN [file |-> file, res |-> ErrorResponse("patch", 400, "Invalid status.")]
    ELSE LET read == readRequestsSafe(file)
             idx == findIndex(read.rows, id)
             requests == [read.rows EXCEPT ![idx].status = status]
         IN IF idx = 0
            THEN [file |-> read.file, res |-> ErrorResponse("patch", 404, "Not found.")]
            ELSE [file |-> writeRequests(read.file, requests),
                  res |-> Response("patch", 200, "", FALSE, Empty,
                                   <<requests[idx]>>, <<>>)]

(* ------------------------------- state ---------------------------------- *)

NoResponse == ErrorResponse("none", 0, "")

\* history of the availability checks, recorded when on: the arguments and
\* the result of the latest successful check, kept until a record is created;
\* patched is set by a successful status transition since that check, and
\* again says that the check repeated one of the same date and time with no
\* creation and no status transition in between
NoHist == [on |-> FALSE, valid |-> FALSE, date |-> Empty, time |-> Empty,
           available |-> FALSE, dateTime |-> Empty, patched |-> FALSE,
           again |-> FALSE]

TrackCheck(h, date, time, res) ==
    IF ~h.on \/ res.code # 200 THEN h
    ELSE [h EXCEPT !.valid = TRUE, !.date = date, !.time = time,
                   !.available = res.available, !.dateTime = res.dateTime,
                   !.patched = FALSE,
                   !.again = h.valid /\ ~h.patched /\ h.date = date /\ h.time = time]

Track(h, res) ==
    IF ~h.on THEN h
    ELSE IF res.op = "create" /\ res.code = 201
    THEN [NoHist EXCEPT !.on = TRUE]
    ELSE IF res.op = "patch" /\ res.code = 200 /\ h.valid
    THEN [h EXCEPT !.patched = TRUE]
    ELSE h

\* a text that JSON.parse rejects although a record is legible in it: an
\* array of one record cut short before its closing bracket
TruncatedFile ==
    FileOf("corrupt",
           <<JSONRecord(NewRequest(BasePayload, UnknownId, 0, makeDateTimeKey(D1, T1)))>>)

\* the call got past the test of its input and read a file that JSON.parse
\* rejects (the catch branch of readRequestsSafe ran)
ReadUnparsable(file, res) == file.kind = "corrupt" /\ res.code # 400

\* the data file as the server finds it at start-up
InitServer ==
    /\ REQUESTS_FILE \in {FileOf(k, <<>>) : k \in FileKinds} \cup {TruncatedFile}
    /\ now = 0
    /\ last = NoResponse
    /\ created = <<>>
    /\ inflight = <<>>
    /\ corruptRead = FALSE

Init ==
    /\ InitServer
    /\ hist = NoHist

(* ------------------------------- actions -------------------------------- *)

\* GET /api/check?date=&time=
Check(date, time) ==
    LET r == GetCheck(date, time, REQUESTS_FILE)
    IN /\ REQUESTS_FILE' = r.file
       /\ last' = r.res
       /\ hist' = TrackCheck(hist, date, time, r.res)
       /\ corruptRead' = ReadUnparsable(REQUESTS_FILE, r.res)
       /\ UNCHANGED <<now, created, inflight>>

\* the handler of POST /api/requests run on body p
CreateStep(p) ==
    \E rand \in Rands, t \in {now, now + 1} :
        LET r == PostRequests(p, rand, t, REQUESTS_FILE)
        IN /\ t <= MaxClock
           /\ r.res.code = 201 => Len(Rows(REQUESTS_FILE)) < MaxRecords
           /\ REQUESTS_FILE' = r.file
           /\ now' = t
           /\ last' = r.res
           /\ created' = IF r.res.code = 201
                         THEN Append(created, r.res.request[1])
                         ELSE created
           /\ hist' = Track(hist, r.res)
           /\ corruptRead' = ReadUnparsable(REQUESTS_FILE, r.res)

\* POST /api/requests, received and handled
Create(p) ==
    /\ CreateStep(p)
    /\ UNCHANGED inflight

\* GET /api/admin/requests
List ==
    LET r == GetAdminRequests(REQUESTS_FILE)
    IN /\ REQUESTS_FILE' = r.file
       /\ last' = r.res
       /\ corruptRead' = ReadUnparsable(REQUESTS_FILE, r.res)
       /\ UNCHANGED <<now, created, hist, inflight>>

\* PATCH /api/admin/requests/:id
Patch(id, status) ==
    LET r == PatchAdminRequest(id, status, REQUESTS_FILE)
    IN /\ REQUESTS_FILE' = r.file
       /\ last' = r.res
       /\ hist' = Track(hist, r.res)
       /\ corruptRead' = ReadUnparsable(REQUESTS_FILE, r.res)
       /\ UNCHANGED <<now, created, inflight>>

Next ==
    \/ \E date \in CheckDates, time \in CheckTimes : Check(date, time)
    \/ \E p \in Payloads : Create(p)
    \/ List
    \/ \E id \in PatchIds, status \in PatchStatuses : Patch(id, status)

Spec == Init /\ [][Next]_vars

(* ---------------------- availability history ---------------------------- *)

InitIdem ==
    /\ InitServer
    /\ hist = [NoHist EXCEPT !.on = TRUE]

\* the calls of Next with fewer inputs: one rejected input for each call, and
\* status transitions to "confirmed" and to "cancelled"
IdemStatuses == {"confirmed", "cancelled", "bogus"}

NextIdem ==
    \/ \E date \in {D1, D2, BadDate} : Check(date, T1)
    \/ \E p \in ValidPayloads \cup {[BasePayload EXCEPT !.date = BadDate]} : Create(p)
    \/ List
    \/ \E id \in PatchIds, status \in IdemStatuses : Patch(id, status)

SpecIdem == InitIdem /\ [][NextIdem]_vars

(* ----------------------- concurrent creations --------------------------- *)

\* A creation call is received (its body parsed by the middleware) some time
\* before the event loop runs its handler; the handler then runs to
\* completion, being synchronous.  inflight holds the calls received and not
\* yet answered back: the body, the response code (0 while the handler has
\* not run), whether the slot was free when the call was received, and the
\* calls that were waiting for their handler at that moment.
InflightPayloads == ValidPayloads \cup {[BasePayload EXCEPT !.time = BadTime]}

Arrive(p) ==
    /\ Len(inflight) < MaxInflight
    /\ inflight' = Append(inflight,
           [p |-> p, code |-> 0,
            free |-> ~conflict(Rows(REQUESTS_FILE), makeDateTimeKey(p.date, p.time)),
            with |-> {j \in 1..Len(inflight) : inflight[j].code = 0}])
    /\ UNCHANGED <<REQUESTS_FILE, now, last, created, hist, corruptRead>>

\* the event loop runs the handler of a waiting call
Dispatch(i) ==
    /\ inflight[i].code = 0
    /\ CreateStep(inflight[i].p)
    /\ inflight' = [inflight EXCEPT ![i].code = last'.code]

\* every call received has been answered
Close ==
    /\ inflight # <<>>
    /\ \A i \in 1..Len(inflight) : inflight[i].code # 0
    /\ inflight' = <<>>
    /\ UNCHANGED <<REQUESTS_FILE, now, last, created, hist, corruptRead>>

NextConc ==
    \/ \E p \in InflightPayloads : Arrive(p)
    \/ \E i \in 1..Len(inflight) : Dispatch(i)
    \/ Close

SpecConc == Init /\ [][NextConc]_vars

(* ------------------------ estimate inputs ------------------------------- *)

NextEstimate == \E p \in EstimatePayloads : Create(p)

SpecEstimate == Init /\ [][NextEstimate]_vars

(* ------------------------------------------------------------------------ *)
(*                               properties                                 *)
(* ------------------------------------------------------------------------ *)

\* the records the store yields now
rows == Rows(REQUESTS_FILE)

\* a record with its status left out of account
NonStatus(r) == [r EXCEPT !.status = "pending"]

\* some record of the slot is not cancelled / the slot has a record
Occupied(rs, date, time) ==
    \E k \in 1..Len(rs) :
        rs[k].date = date /\ rs[k].time = time /\ rs[k].status # "cancelled"
HasRecord(rs, date, time) ==
    \E k \in 1..Len(rs) : rs[k].date = date /\ rs[k].time = time

\* two records of one slot, neither cancelled
DoubleBooked(rs) ==
    \E i, j \in 1..Len(rs) :
        /\ i # j
        /\ rs[i].dateTime = rs[j].dateTime
        /\ rs[i].status # "cancelled"
        /\ rs[j].status # "cancelled"

(* C1: conflict law.  Once a record was created for date D and time T, a    *)
(* creation with every required field and the same D and T answers 409 and  *)
(* leaves the file as it is while a record of the slot is not cancelled,    *)
(* and answers 201, adding one record, when the admin transition has        *)
(* cancelled the records of the slot.                                       *)
C1_ConflictLaw ==
    [][\A p \in ValidPayloads :
          (Create(p) /\ HasRecord(created, p.date, p.time))
          => IF Occupied(rows, p.date, p.time)
             THEN /\ last'.code = 409
                  /\ REQUESTS_FILE' = REQUESTS_FILE
             ELSE /\ last'.code = 201
                  /\ Len(Rows(REQUESTS_FILE')) = Len(rows) + 1]_vars

\* the slot of a cancelled record has been booked again
C1_Witness ==
    /\ last.op = "create"
    /\ last.code = 201
    /\ Len(rows) = 2
    /\ rows[1].dateTime = rows[2].dateTime
    /\ rows[2].status = "cancelled"
    /\ rows[1].status = "pending"

\* two calls were in flight together for one slot, free when the later came
Raced(i, j) ==
    /\ j \in inflight[i].with
    /\ inflight[i].free
    /\ inflight[i].p \in ValidPayloads
    /\ inflight[i].p.date = inflight[j].p.date
    /\ inflight[i].p.time = inflight[j].p.time
    /\ inflight[i].code # 0
    /\ inflight[j].code # 0

(* C2, as claimed: two creation calls in flight together for one free slot  *)
(* both pass the availability check, so both answer 201 (created).          *)
C2_BothCreated ==
    \A i, j \in 1..Len(inflight) :
        Raced(i, j) => inflight[i].code = 201 /\ inflight[j].code = 201

(* C2, amended: the handlers run one after the other, so of two creation    *)
(* calls in flight together for one free slot at most one answers 201, the  *)
(* other answers 409, and the store never holds two records of one slot     *)
(* that are not cancelled.                                                  *)
C2_Serialized ==
    /\ ~DoubleBooked(rows)
    /\ \A i, j \in 1..Len(inflight) :
          Raced(i, j) =>
              /\ ~(inflight[i].code = 201 /\ inflight[j].code = 201)
              /\ {inflight[i].code, inflight[j].code} \subseteq {201, 409}

\* two calls raced for a free slot: one was created, the other refused
C2_Witness ==
    /\ Len(inflight) = 2
    /\ Raced(2, 1)
    /\ {inflight[1].code, inflight[2].code} = {201, 409}
    /\ Len(rows) = 1

(* C3: no record is written on a failure path.  A creation answered 400 or  *)
(* 409 and a status transition answered 400 or 404 leave the record         *)
(* sequence of the store as it was; the data file itself is untouched       *)
(* unless it was missing or unparseable (then the read repairs it to "[]"). *)
C3_NoWriteOnFailure ==
    [][(/\ last'.op \in {"create", "patch"}
        /\ last'.code \in {400, 404, 409})
       => /\ Rows(REQUESTS_FILE') = rows
          /\ REQUESTS_FILE.kind \notin {"missing", "corrupt"}
                => REQUESTS_FILE' = REQUESTS_FILE]_vars

\* a creation was refused for a conflict, on a store that holds records
C3_Witness ==
    /\ last.op = "create"
    /\ last.code = 409
    /\ Len(rows) > 0

(* C4: newest first.  The store, and the admin listing that returns it,     *)
(* holds the records in reverse order of creation, whatever status          *)
(* transitions were made: its first element is the latest record created.   *)
C4_NewestFirst ==
    /\ Len(rows) = Len(created)
    /\ \A i \in 1..Len(rows) :
          NonStatus(rows[i]) = NonStatus(created[Len(created) - i + 1])
    /\ (last.op = "list" => last.requests = rows)

\* a listing of two records, the older one with its status changed
C4_Witness ==
    /\ last.op = "list"
    /\ Len(last.requests) = 2
    /\ last.requests[1] = created[2]
    /\ last.requests[2].status = "confirmed"
    /\ created[1] # created[2]

(* C5: a status transition answered 200 changes the status of the record    *)
(* matched by id and nothing else: the other fields of that record, the     *)
(* other records, the length and the order of the sequence stay, and the    *)
(* record returned is the matched record with the new status.               *)
C5_StatusOnly ==
    [][\A id \in PatchIds, status \in PatchStatuses :
          (Patch(id, status) /\ last'.code = 200)
          => \E k \in 1..Len(rows) :
                /\ rows[k].id = id
                /\ Rows(REQUESTS_FILE') = [rows EXCEPT ![k].status = status]
                /\ last'.request = <<[rows[k] EXCEPT !.status = status]>>]_vars

\* the second of two records has been given a new status
C5_Witness ==
    /\ last.op = "patch"
    /\ last.code = 200
    /\ Len(rows) = 2
    /\ last.request = <<rows[2]>>
    /\ rows[2].status = "completed"
    /\ rows[1] # rows[2]

(* C6, as claimed: an availability check leaves the data file identical,    *)
(* whatever its arguments and whatever the file held before.                *)
C6_FileIdentical ==
    [][last'.op = "check" => REQUESTS_FILE' = REQUESTS_FILE]_vars

(* C6, amended: an availability check never changes the record sequence of  *)
(* the store; a check answered 400 does not touch the data file, and one    *)
(* answered 200 leaves the file identical unless the file was missing or    *)
(* unparseable, which the read repairs to "[]".                             *)
C6_RecordsUntouched ==
    [][last'.op = "check"
       => /\ Rows(REQUESTS_FILE') = rows
          /\ last'.code = 400 => REQUESTS_FILE' = REQUESTS_FILE
          /\ REQUESTS_FILE.kind \notin {"missing", "corrupt"}
                => REQUESTS_FILE' = REQUESTS_FILE
          /\ REQUESTS_FILE' # REQUESTS_FILE => REQUESTS_FILE' = ArrayFile(<<>>)]_vars

\* a check has answered on a store that holds a cancelled and a booked record
C6_Witness ==
    /\ last.op = "check"
    /\ last.code = 200
    /\ ~last.available
    /\ \E k \in 1..Len(rows) : rows[k].status = "cancelled"

(* C7, as claimed: a check of a date and time returns the same available    *)
(* and dateTime as the previous check of that date and time when no record  *)
(* was created in between.                                                  *)
C7_SameUnlessCreated ==
    [][\A date \in CheckDates, time \in CheckTimes :
          (/\ Check(date, time)
           /\ last'.code = 200
           /\ hist.valid
           /\ hist.date = date
           /\ hist.time = time)
          => /\ last'.available = hist.available
             /\ last'.dateTime = hist.dateTime]_vars

(* C7, amended: a check of a date and time returns the same available and   *)
(* dateTime as the previous check of that date and time when no record was  *)
(* created and no status transition succeeded in between.                   *)
C7_SameUnlessCreatedOrPatched ==
    [][\A date \in CheckDates, time \in CheckTimes :
          (/\ Check(date, time)
           /\ last'.code = 200
           /\ hist.valid
           /\ ~hist.patched
           /\ hist.date = date
           /\ hist.time = time)
          => /\ last'.available = hist.available
             /\ last'.dateTime = hist.dateTime]_vars

\* a check has repeated an earlier one of a booked slot, with calls that
\* created nothing and changed no status in between
C7_Witness ==
    /\ last.op = "check"
    /\ hist.again
    /\ ~hist.available
    /\ Len(rows) = 2

(* C8: a creation answered 201 returns a record with status "pending" and   *)
(* dateTime equal to the date, a space and the time; a check of that date   *)
(* and time made right after it answers 200 with available false and that   *)
(* same dateTime.                                                           *)
C8_CreatedThenUnavailable ==
    [][(last.op = "create" /\ last.code = 201)
       => LET r == last.request[1]
          IN /\ r.status = "pending"
             /\ r.dateTime = r.date \o <<" ">> \o r.time
             /\ r \in {rows[k] : k \in 1..Len(rows)}
             /\ Check(r.date, r.time)
                   => /\ last'.code = 200
                      /\ ~last'.available
                      /\ last'.dateTime = r.date \o <<" ">> \o r.time]_vars

\* the slot of the one record, pending, has been checked and found taken
C8_Witness ==
    /\ last.op = "check"
    /\ last.code = 200
    /\ ~last.available
    /\ Len(rows) = 1
    /\ rows[1].status = "pending"
    /\ last.dateTime = rows[1].dateTime

(* C9: no call deletes a record or changes a field of it other than the     *)
(* status: every record of the store is still in the store after any call,  *)
(* with the same id and the same fields apart from status.                  *)
C9_RecordsKept ==
    [][/\ Len(Rows(REQUESTS_FILE')) >= Len(rows)
       /\ \A i \in 1..Len(rows) :
             \E j \in 1..Len(Rows(REQUESTS_FILE')) :
                 NonStatus(Rows(REQUESTS_FILE')[j]) = NonStatus(rows[i])]_vars

\* a record whose status was changed is still there after a later creation
C9_Witness ==
    /\ last.op = "create"
    /\ last.code = 201
    /\ Len(rows) = 2
    /\ rows[2].status = "completed"
    /\ NonStatus(rows[2]) = NonStatus(created[1])

\* the estimate the specification asks for: negative counts count as 0
Max0(v) == IF v.t = "number" /\ v.n > 0 THEN v.n ELSE 0
Floor(r) ==
    (IF r.serviceType = "deep" THEN 180 ELSE 120)
        + (IF r.propertyType = "commercial" THEN 60 ELSE 0)

(* C10: a negative bedrooms or bathrooms value counts as 0 in the estimate  *)
(* of a creation answered 201, so the estimate is never below the base plus *)
(* the commercial surcharge.                                                *)
C10_NegativeCountsAsZero ==
    (last.op = "create" /\ last.code = 201)
    => LET r == last.request[1]
       IN (/\ r.bedrooms.t \in {"number", "null"}
           /\ r.bathrooms.t \in {"number", "null"}
           /\ r.bedrooms.n < 0 \/ r.bathrooms.n < 0)
          => /\ r.estimateUSD.t = "number"
             /\ r.estimateUSD.n = Floor(r) + 20 * Max0(r.bedrooms) + 15 * Max0(r.bathrooms)
             /\ r.estimateUSD.n >= Floor(r)

\* a count that is absent or a non-negative integer, and its value
NonNegativeOrAbsent(v) == v.t = "undefined" \/ (v.t = "number" /\ v.n >= 0)
CountOf(v) == IF v.t = "number" THEN v.n ELSE 0

(* C11: for a creation answered 201 whose bedrooms and bathrooms are each   *)
(* absent or a non-negative integer, estimateUSD is 180 for a deep service  *)
(* and 120 otherwise, plus 20 for each bedroom, plus 15 for each bathroom,  *)
(* plus 60 for a commercial property, an absent count being 0.              *)
C11_EstimateFormula ==
    [][\A p \in EstimatePayloads :
          (/\ Create(p)
           /\ last'.code = 201
           /\ NonNegativeOrAbsent(p.bedrooms)
           /\ NonNegativeOrAbsent(p.bathrooms))
          => last'.request[1].estimateUSD =
                 Num((IF p.serviceType = "deep" THEN 180 ELSE 120)
                     + 20 * CountOf(p.bedrooms) + 15 * CountOf(p.bathrooms)
                     + (IF p.propertyType = "commercial" THEN 60 ELSE 0))]_vars

\* standard, 3 bedrooms, 2 bathrooms, residential: 210
C11_Witness ==
    /\ last.op = "create"
    /\ last.code = 201
    /\ last.request[1].serviceType = "standard"
    /\ last.request[1].propertyType = "residential"
    /\ last.request[1].bedrooms = Num(3)
    /\ last.request[1].bathrooms = Num(2)
    /\ last.request[1].estimateUSD = Num(210)

(* C15: no two records of the store have the same id.                       *)
C15_UniqueIds ==
    \A i, j \in 1..Len(rows) : i # j => rows[i].id # rows[j].id

(* C16: the bedrooms and the bathrooms of every stored record are each null *)
(* or a non-negative number.                                                *)
C16_CountsNonNegative ==
    \A k \in 1..Len(rows) :
        /\ rows[k].bedrooms.t \in {"null", "number"}
        /\ rows[k].bathrooms.t \in {"null", "number"}
        /\ rows[k].bedrooms.n >= 0
        /\ rows[k].bathrooms.n >= 0

(* C17: slot uniqueness.  At most one record whose status is not            *)
(* "cancelled" exists for each dateTime key, in every state reached from    *)
(* the empty store by creations and status transitions.                     *)
C17_SlotUnique ==
    \A i, j \in 1..Len(rows) :
        (/\ i # j
         /\ rows[i].status # "cancelled"
         /\ rows[j].status # "cancelled")
        => rows[i].dateTime # rows[j].dateTime

(* C19: the availability check and the creation agree.  In every state and  *)
(* for every well-formed date and time, the check answers available true    *)
(* exactly when a creation with every required field for that date and time *)
(* would be answered 201 in that state, and available false exactly when it *)
(* would be answered 409.                                                   *)
C19_CheckAgreesWithCreate ==
    \A p \in ValidPayloads, rand \in Rands :
        LET c == GetCheck(p.date, p.time, REQUESTS_FILE).res
            r == PostRequests(p, rand, now, REQUESTS_FILE).res
        IN /\ c.code = 200
           /\ r.code \in {201, 409}
           /\ c.available <=> r.code = 201
           /\ ~c.available <=> r.code = 409

\* a check found a slot free whose only record is cancelled
C19_Witness ==
    /\ last.op = "check"
    /\ last.code = 200
    /\ last.available
    /\ \E k \in 1..Len(rows) :
          rows[k].dateTime = last.dateTime /\ rows[k].status = "cancelled"

(* C12: the outcome of a status transition.  It is answered 400 exactly     *)
(* when the target status is none of pending, confirmed, completed and      *)
(* cancelled, whether or not a record has the id; otherwise 404 exactly     *)
(* when no stored record has the id; otherwise 200.                         *)
C12_TransitionOutcome ==
    [][\A id \in PatchIds, status \in PatchStatuses :
          Patch(id, status)
          => last'.code =
                 IF status \notin {"pending", "confirmed", "completed", "cancelled"}
                 THEN 400
                 ELSE IF \A k \in 1..Len(rows) : rows[k].id # id
                 THEN 404
                 ELSE 200]_vars

\* a transition answered 404 by a store that holds records
C12_Witness ==
    /\ last.op = "patch"
    /\ last.code = 404
    /\ Len(rows) > 0

(* C13: the transition graph is fully connected.  For every id of a stored  *)
(* record and every target status of the four, whatever the status of the   *)
(* record the id matches and whatever the other records, the transition is  *)
(* answered 200 and leaves that record in the target status.                *)
C13_FullyConnected ==
    [][\A id \in Ids, status \in {"pending", "confirmed", "completed", "cancelled"} :
          (Patch(id, status) /\ \E k \in 1..Len(rows) : rows[k].id = id)
          => LET k == CHOOSE i \in 1..Len(rows) :
                          /\ rows[i].id = id
                          /\ \A j \in 1..(i - 1) : rows[j].id # id
             IN /\ last'.code = 200
                /\ last'.request[1].status = status
                /\ Len(Rows(REQUESTS_FILE')) = Len(rows)
                /\ Rows(REQUESTS_FILE')[k].status = status
                /\ NonStatus(Rows(REQUESTS_FILE')[k]) = NonStatus(rows[k])]_vars

\* a record moved to "pending" while another record that is not cancelled
\* holds its slot: the record had been cancelled for that one to be created
C13_Witness ==
    /\ last.op = "patch"
    /\ last.code = 200
    /\ last.request[1].status = "pending"
    /\ \E i, j \in 1..Len(rows) :
          /\ i # j
          /\ rows[i] = last.request[1]
          /\ rows[j].dateTime = rows[i].dateTime
          /\ rows[j].status # "cancelled"

(* C14: recovery from a corrupt store.  A call that reads a file whose text *)
(* does not parse takes the store as empty and completes: a check is        *)
(* answered available true, a creation is answered 201 and the store then   *)
(* holds the new record and nothing else, a listing returns the empty list, *)
(* and the file is left holding a JSON array.                               *)
C14_CorruptStoreIsEmpty ==
    corruptRead
    => /\ REQUESTS_FILE.kind = "array"
       /\ last.op = "check" => (last.code = 200 /\ last.available /\ rows = <<>>)
       /\ last.op = "create" => (last.code = 201 /\ rows = last.request)
       /\ last.op = "list" => (last.code = 200 /\ last.requests = <<>> /\ rows = <<>>)
       /\ last.op = "patch" => (last.code = 404 /\ rows = <<>>)

\* a creation on the truncated file: one record stored, the new one
C14_Witness ==
    /\ corruptRead
    /\ last.op = "create"
    /\ last.code = 201
    /\ Len(rows) = 1
    /\ rows[1].dateTime = makeDateTimeKey(D1, T1)
    /\ rows[1].id # UnknownId

(* C18: the outcome of a creation.  It is answered 400 exactly when one of  *)
(* fullName, email, phone, serviceType, propertyType, address, date, time   *)
(* is absent or empty or the date or the time is malformed, and then the    *)
(* file is left as it was, whatever it holds; otherwise 409 exactly when a  *)
(* record that is not cancelled has the same dateTime key; otherwise 201,   *)
(* and the store has one record more.                                       *)
C18_CreationOutcome ==
    [][\A p \in Payloads :
          Create(p)
          => IF \/ \E f \in {"fullName", "email", "phone", "serviceType",
                             "propertyType", "address"} : p[f] = ""
                \/ p.date \in {Empty, BadDate}
                \/ p.time \in {Empty, BadTime}
             THEN last'.code = 400 /\ REQUESTS_FILE' = REQUESTS_FILE
             ELSE IF \E k \in 1..Len(rows) :
                        /\ rows[k].dateTime = p.date \o <<" ">> \o p.time
                        /\ rows[k].status # "cancelled"
             THEN last'.code = 409
             ELSE /\ last'.code = 201
                  /\ Len(Rows(REQUESTS_FILE')) = Len(rows) + 1]_vars

\* a creation answered 400 with the file still unparsable: it was not read
C18_Witness ==
    /\ last.op = "create"
    /\ last.code = 400
    /\ REQUESTS_FILE.kind = "corrupt"

====
